---- MODULE Spec2Model ----
(***************************************************************************)
(* Model of swanlab_sync_tool: the WandB exporter (classification of       *)
(* metric keys, concurrent per-key fetch, densification of one step-axis   *)
(* group, merge of the groups, CSV cache), the SwanLab uploader            *)
(* (per-row projection and publishing) and the orchestration in main.      *)
(*                                                                         *)
(* Metric keys and column names are Python strings; they are modelled as   *)
(* sequences of one-character strings so that str.startswith, == and       *)
(* str.split are computed as the code computes them.                       *)
(***************************************************************************)
EXTENDS Integers, Sequences, FiniteSets, TLC

VARIABLES
    pc,               \* position of the operation being modelled
    history_keys,     \* run.history_keys['keys'] in iteration order (exporter.py:117)
    metric_keys,      \* metric_keys (exporter.py:116)
    grouped_metrics,  \* grouped_metrics (exporter.py:123), group key -> list of keys
    group_metrics,    \* argument of fetch_one_group (exporter.py:146)
    scan_history,     \* what run.scan_history does for each key (exporter.py:140)
    futures,          \* future_to_key with each future's state (exporter.py:149)
    dfs,              \* dfs: key -> fetched frame (exporter.py:147, 210)
    metric_step,      \* the group being processed (exporter.py:206)
    df_group,         \* outcome of densifying the group (exporter.py:214-220)
    result_dfs,       \* result_dfs: group key -> non-empty group table (exporter.py:204)
    df_final,         \* df_final (exporter.py:224-246)
    upload_df,        \* df handed to sync_framework_data (uploader.py:162)
    fw_mapping,       \* fw_config.get('mapping') (uploader.py:184)
    log_fails,        \* the rows, in upload order, whose swanlab.log call raises
    calls,            \* the calls made to the destination tracker, in order
    payloads,         \* per row in upload order, the payload built (uploader.py:138-143)
    uploaded_count,   \* uploaded_count (uploader.py:132)
    frameworks,       \* cfg['frameworks'] in order: name, enabled, platform, mapping
    backend,          \* per framework, what its tracking backend holds and does
    files,            \* per framework, the output file fw_config['output_file']
    run_no,           \* the number of the current run of main
    fw_i,             \* position of the loop of main that is running
    framework_data,   \* framework_data (main.py:96), in insertion order
    last_export,      \* what the latest export call found and did
    summarised,       \* the frameworks the summary of main.py:151-193 has covered
    report_in,        \* a configuration and the columns of its aligned table
    report            \* what exporter, uploader and summary derive from report_in

classifyVars == <<history_keys, metric_keys, grouped_metrics>>
fetchVars == <<group_metrics, scan_history, futures>>
densifyVars == <<metric_step, df_group>>
mergeVars == <<result_dfs, df_final>>
uploadVars == <<upload_df, fw_mapping, log_fails, calls, payloads, uploaded_count>>
mainVars == <<frameworks, backend, files, run_no, fw_i, framework_data, last_export,
              summarised>>
reportVars == <<report_in, report>>
vars == <<pc, classifyVars, fetchVars, dfs, densifyVars, mergeVars, uploadVars, mainVars,
          reportVars>>

\* what the actions of one part leave alone
notClassify == <<fetchVars, dfs, densifyVars, mergeVars, uploadVars, mainVars, reportVars>>
notFetch == <<classifyVars, densifyVars, mergeVars, uploadVars, mainVars, reportVars>>
notDensify == <<classifyVars, fetchVars, mergeVars, uploadVars, mainVars, reportVars>>
notMerge == <<classifyVars, fetchVars, dfs, densifyVars, uploadVars, mainVars, reportVars>>
notUpload == <<classifyVars, fetchVars, dfs, densifyVars, mergeVars, mainVars, reportVars>>
notMain == <<classifyVars, fetchVars, dfs, densifyVars, mergeVars,
             upload_df, fw_mapping, log_fails, payloads, uploaded_count, reportVars>>
notReport == <<classifyVars, fetchVars, dfs, densifyVars, mergeVars, uploadVars, mainVars>>

\* values of the variables a specification does not use
ClassifyIdle == history_keys = <<>> /\ metric_keys = <<>> /\ grouped_metrics = <<>>
FetchIdle == group_metrics = <<>> /\ scan_history = <<>> /\ futures = <<>>
DensifyIdle == metric_step = <<>> /\ df_group = <<>>
MergeIdle == result_dfs = <<>> /\ df_final = <<>>
UploadIdle ==
    /\ upload_df = <<>> /\ fw_mapping = <<>> /\ log_fails = {}
    /\ calls = <<>> /\ payloads = <<>> /\ uploaded_count = 0
MainIdle ==
    /\ frameworks = <<>> /\ backend = <<>> /\ files = <<>> /\ run_no = 0 /\ fw_i = 0
    /\ framework_data = <<>> /\ last_export = <<>> /\ summarised = {}
ReportIdle == report_in = <<>> /\ report = <<>>

(***************************************************************************)
(* Strings                                                                 *)
(***************************************************************************)
Range(f) == {f[i] : i \in DOMAIN f}
Count(f, x) == Cardinality({i \in DOMAIN f : f[i] = x})

\* str.startswith
StartsWith(s, p) == Len(p) <= Len(s) /\ SubSeq(s, 1, Len(p)) = p

S_system == <<"s","y","s","t","e","m">>
S_timestamp == <<"_","t","i","m","e","s","t","a","m","p">>
S_step == <<"s","t","e","p">>
S_id == <<"_","i","d">>

P_train == <<"t","r","a","i","n","/">>
P_rollout == <<"r","o","l","l","o","u","t","/">>
P_multi_turn == <<"m","u","l","t","i","_","t","u","r","n","/">>
P_passrate == <<"p","a","s","s","r","a","t","e","/">>
P_perf == <<"p","e","r","f","/">>
P_eval == <<"e","v","a","l","/">>

K_train_step == P_train \o S_step
K_rollout_step == P_rollout \o S_step
K_eval_step == P_eval \o S_step
K_train_loss == P_train \o <<"l","o","s","s">>
K_rollout_r == P_rollout \o <<"r">>
K_multi_turn_n == P_multi_turn \o <<"n">>
K_perf_t == P_perf \o <<"t">>
K_eval_acc == P_eval \o <<"a","c","c">>
K_system_cpu == S_system \o <<"/","c","p","u">>
K_system_train == S_system \o <<"_">> \o K_train_loss
K_lr == <<"l","r">>
K_trainer_x == <<"t","r","a","i","n","e","r","/","x">>

\* The order in which keys_mapping is iterated (a dict literal: insertion order).
StepKeys == <<K_train_step, K_rollout_step, K_eval_step>>

\* keys_mapping: group key -> list of prefixes
keys_mapping(k) ==
    IF k = K_train_step THEN <<P_train>>
    ELSE IF k = K_rollout_step THEN <<P_rollout, P_multi_turn, P_passrate, P_perf>>
    ELSE <<P_eval>>

(***************************************************************************)
(* Classification of the metric keys (export_wandb, lines 115-131)         *)
(***************************************************************************)
RECURSIVE FilterKeys(_)
\* lines 116-120: drop keys that start with 'system' or equal '_timestamp'
FilterKeys(keys) ==
    IF keys = <<>> THEN <<>>
    ELSE IF StartsWith(Head(keys), S_system) \/ Head(keys) = S_timestamp
         THEN FilterKeys(Tail(keys))
         ELSE <<Head(keys)>> \o FilterKeys(Tail(keys))

RECURSIVE PrefixAppends(_, _)
\* lines 129-131: one append per prefix of the group the key starts with (no break)
PrefixAppends(key, prefixes) ==
    IF prefixes = <<>> THEN <<>>
    ELSE (IF StartsWith(key, Head(prefixes)) THEN <<key>> ELSE <<>>)
         \o PrefixAppends(key, Tail(prefixes))

\* Variant of KeyAppends without the `continue` of line 128: the exact-name
\* match falls through to the prefix loop.
KeyAppendsNoContinue(key, k) ==
    (IF key = k THEN <<key>> ELSE <<>>) \o PrefixAppends(key, keys_mapping(k))

\* lines 126-131: what one metric key appends to the list of group k
KeyAppends(key, k) ==
    IF key = k THEN <<key>> ELSE PrefixAppends(key, keys_mapping(k))

RECURSIVE GroupList(_, _)
\* lines 125-131: the list built for group k over all metric keys
GroupList(keys, k) ==
    IF keys = <<>> THEN <<>>
    ELSE KeyAppends(Head(keys), k) \o GroupList(Tail(keys), k)

\* lines 123-131: grouped_metrics (a defaultdict: only groups that received a key)
GroupMetrics(keys) ==
    LET present == {i \in 1..Len(StepKeys) : GroupList(keys, StepKeys[i]) # <<>>}
    IN  [k \in {StepKeys[i] : i \in present} |-> GroupList(keys, k)]

\* grouped_metrics.items() order: insertion order = keys_mapping order
RECURSIVE GroupOrderFrom(_, _)
GroupOrderFrom(g, i) ==
    IF i > Len(StepKeys) THEN <<>>
    ELSE (IF StepKeys[i] \in DOMAIN g THEN <<StepKeys[i]>> ELSE <<>>)
         \o GroupOrderFrom(g, i + 1)

GroupOrder(g) == GroupOrderFrom(g, 1)

----
\* Keys a run may report, in the order the backend lists them.
KeyUniverse ==
    <<K_train_step, K_train_loss, K_rollout_step, K_multi_turn_n, K_perf_t,
      K_eval_step, K_eval_acc, K_system_cpu, K_system_train, S_timestamp,
      K_lr, K_trainer_x>>

RECURSIVE SubSequence(_, _, _)
SubSequence(s, I, i) ==
    IF i > Len(s) THEN <<>>
    ELSE (IF i \in I THEN <<s[i]>> ELSE <<>>) \o SubSequence(s, I, i + 1)

InitClassify ==
    /\ pc = "keys"
    /\ \E I \in SUBSET (1..Len(KeyUniverse)) : history_keys = SubSequence(KeyUniverse, I, 1)
    /\ metric_keys = <<>>
    /\ grouped_metrics = <<>>
    /\ FetchIdle /\ dfs = <<>> /\ DensifyIdle /\ MergeIdle /\ UploadIdle /\ MainIdle
    /\ ReportIdle

\* lines 116-120
CollectMetricKeys ==
    /\ pc = "keys"
    /\ metric_keys' = FilterKeys(history_keys)
    /\ pc' = "filtered"
    /\ UNCHANGED <<history_keys, grouped_metrics, notClassify>>

\* lines 123-131
GroupKeys ==
    /\ pc = "filtered"
    /\ grouped_metrics' = GroupMetrics(metric_keys)
    /\ pc' = "grouped"
    /\ UNCHANGED <<history_keys, metric_keys, notClassify>>

NextClassify == CollectMetricKeys \/ GroupKeys

SpecClassify == InitClassify /\ [][NextClassify]_vars

(***************************************************************************)
(* Fetching one group (fetch_single_metric, fetch_one_group, lines 138-163)*)
(*                                                                         *)
(* A fetched frame pd.DataFrame(run.scan_history(keys=[key, '_step'])) is  *)
(* the sequence of its rows [step, val]; the frame of an empty result has  *)
(* no rows and no columns and is the empty sequence.                       *)
(***************************************************************************)
\* A cell or logged value: None/NaN, a scalar, a list of scalars (a densified
\* collision), or text (what read_csv makes of a list).
NullCell == [tag |-> "null", vs |-> <<>>]
Scalar(v) == [tag |-> "scalar", vs |-> <<v>>]
List(vs) == [tag |-> "list", vs |-> vs]
Text(vs) == [tag |-> "str", vs |-> vs]

\* pd.isna / pd.notna of a scalar cell
IsNull(c) == c.tag = "null"

\* one row of a fetched frame: columns '_step' and the key
Sample(s, v) == [step |-> s, val |-> v]

\* result of a call: a frame, None, or an exception
Frame(rows) == [tag |-> "df", rows |-> rows]
None == [tag |-> "none", rows |-> <<>>]
Exc == [tag |-> "exc", rows |-> <<>>]

\* Variant of fetch_single_metric without the try/except of lines 139-144.
fetch_single_metric_uncaught(key, scan) ==
    IF scan[key].raises THEN Exc ELSE Frame(scan[key].rows)

\* lines 138-144
fetch_single_metric(key, scan) ==
    IF scan[key].raises THEN None ELSE Frame(scan[key].rows)

\* ThreadPoolExecutor(max_workers=10), line 148
max_workers == 10

FutureIds == 1..Len(group_metrics)

\* lines 149-152: executor.submit for every key of the group
SubmitAll ==
    /\ pc = "submit"
    /\ futures' = [i \in FutureIds |-> [state |-> "queued", result |-> None]]
    /\ dfs' = <<>>
    /\ pc' = "as_completed"
    /\ UNCHANGED <<group_metrics, scan_history, notFetch>>

\* a pool thread takes a queued call
WorkerStart(i) ==
    /\ pc = "as_completed"
    /\ futures[i].state = "queued"
    /\ Cardinality({j \in FutureIds : futures[j].state = "running"}) < max_workers
    /\ futures' = [futures EXCEPT ![i].state = "running"]
    /\ UNCHANGED <<pc, group_metrics, scan_history, dfs, notFetch>>

\* the call returns: the future is done
WorkerFinish(i) ==
    /\ pc = "as_completed"
    /\ futures[i].state = "running"
    /\ futures' = [futures EXCEPT ![i] =
            [state |-> "done", result |-> fetch_single_metric(group_metrics[i], scan_history)]]
    /\ UNCHANGED <<pc, group_metrics, scan_history, dfs, notFetch>>

\* lines 154-162: as_completed yields a done future; the loop body runs
CollectFuture(i) ==
    /\ pc = "as_completed"
    /\ futures[i].state = "done"
    /\ futures' = [futures EXCEPT ![i].state = "yielded"]
    /\ LET key == group_metrics[i]
           df == futures[i].result
       IN  IF df.tag = "exc"
           THEN /\ pc' = "fetch_raised"  \* raise e (line 162)
                /\ dfs' = dfs
           ELSE /\ pc' = pc
                /\ dfs' = IF df.tag = "df"
                          THEN [k \in DOMAIN dfs \cup {key} |->
                                   IF k = key THEN df.rows ELSE dfs[k]]
                          ELSE dfs
    /\ UNCHANGED <<group_metrics, scan_history, notFetch>>

\* line 163: every future was yielded
ReturnDfs ==
    /\ pc = "as_completed"
    /\ \A i \in FutureIds : futures[i].state = "yielded"
    /\ pc' = "fetched"
    /\ UNCHANGED <<fetchVars, dfs, notFetch>>

----
MaxStep == 1
MaxLen == 2

\* Values a companion metric logs.
Values == {7, 8}

RECURSIVE SeqsUpTo(_, _)
SeqsUpTo(S, n) ==
    IF n = 0 THEN {<<>>}
    ELSE LET shorter == SeqsUpTo(S, n - 1)
         IN  shorter \cup {Append(s, x) : s \in {t \in shorter : Len(t) = n - 1}, x \in S}

FetchGroups ==
    {<<K_train_step>>, <<K_train_step, K_train_loss>>,
     <<K_eval_acc, K_eval_step>>, <<K_rollout_step, K_multi_turn_n, K_perf_t>>}

FetchRows ==
    {<<>>, <<Sample(0, Scalar(7))>>, <<Sample(1, Scalar(8)), Sample(0, Scalar(7))>>}

InitFetch ==
    /\ pc = "submit"
    /\ ClassifyIdle /\ DensifyIdle /\ MergeIdle /\ UploadIdle /\ MainIdle
    /\ ReportIdle
    /\ group_metrics \in FetchGroups
    /\ scan_history \in
          [{group_metrics[i] : i \in 1..Len(group_metrics)} ->
              [raises : BOOLEAN, rows : FetchRows]]
    /\ futures = <<>>
    /\ dfs = <<>>

NextFetch ==
    \/ SubmitAll
    \/ \E i \in FutureIds : WorkerStart(i)
    \/ \E i \in FutureIds : WorkerFinish(i)
    \/ \E i \in FutureIds : CollectFuture(i)
    \/ ReturnDfs

SpecFetch == InitFetch /\ [][NextFetch]_vars

(***************************************************************************)
(* Densifying one group (agg_one_df, lines 165-201, and lines 213-220)     *)
(*                                                                         *)
(* A table is [cols: the set of column names, rows: the sequence of rows], *)
(* a row a function from cols to cells.  An exception is [tag |-> its      *)
(* name].                                                                  *)
(***************************************************************************)
EmptyDF == [cols |-> {}, rows |-> <<>>]

\* DataFrame.empty: some axis has length 0
IsEmpty(df) == df.cols = {} \/ df.rows = <<>>

Ok(df) == [tag |-> "ok", df |-> df]
Raised(e) == [tag |-> e, df |-> EmptyDF]

SetMax(S) == CHOOSE x \in S : \A y \in S : y <= x
SetMin(S) == CHOOSE x \in S : \A y \in S : x <= y

\* line 171: int(dfs[main_key]['_step'].max())
MaxSteps(rows) == SetMax({rows[i].step : i \in 1..Len(rows)})

\* line 177: the positions of the rows with 0 <= _step <= max_steps
Clipped(rows, max_steps) ==
    {i \in 1..Len(rows) : rows[i].step >= 0 /\ rows[i].step <= max_steps}

\* Variant of KeptValue for drop_duplicates(keep='first').
KeptValueFirst(rows, max_steps, s) ==
    LET at == {i \in Clipped(rows, max_steps) : rows[i].step = s}
    IN  IF at = {} THEN NullCell ELSE rows[SetMin(at)].val

\* lines 177-182: the cell of one key at index step s after clipping,
\* drop_duplicates(subset='_step', keep='last') and the left join
KeptValue(rows, max_steps, s) ==
    LET at == {i \in Clipped(rows, max_steps) : rows[i].step = s}
    IN  IF at = {} THEN NullCell ELSE rows[SetMax(at)].val

RECURSIVE FFill(_, _, _)
\* Variant of BFill for Series.ffill, the previous non-null value.
FFill(col, s, max_steps) ==
    IF s < 0 THEN NullCell
    ELSE IF ~IsNull(col[s]) THEN col[s]
    ELSE FFill(col, s - 1, max_steps)

RECURSIVE BFill(_, _, _)
\* line 184: Series.bfill, the next non-null value towards increasing step
BFill(col, s, max_steps) ==
    IF s > max_steps THEN NullCell
    ELSE IF ~IsNull(col[s]) THEN col[s]
    ELSE BFill(col, s + 1, max_steps)

RECURSIVE DropNa(_)
\* x.dropna().tolist()
DropNa(x) ==
    IF x = <<>> THEN <<>>
    ELSE (IF IsNull(Head(x)) THEN <<>> ELSE <<Head(x)>>) \o DropNa(Tail(x))

\* Variant of collect_non_null without the len == 1 case of lines 188-189.
collect_non_null_always_list(x) ==
    LET valid_values == DropNa(x)
    IN  IF valid_values = <<>> THEN NullCell
        ELSE List([i \in 1..Len(valid_values) |-> valid_values[i].vs[1]])

\* lines 186-192
collect_non_null(x) ==
    LET valid_values == DropNa(x)
    IN  IF Len(valid_values) = 1 THEN valid_values[1]
        ELSE IF valid_values = <<>> THEN NullCell
        ELSE List([i \in 1..Len(valid_values) |-> valid_values[i].vs[1]])

RECURSIVE SortedSeq(_)
\* the elements of a set of integers in ascending order
SortedSeq(S) ==
    IF S = {} THEN <<>> ELSE <<SetMin(S)>> \o SortedSeq(S \ {SetMin(S)})

\* the joined frame final_df of lines 172-184: for each index step 0..max_steps
\* the cell of every fetched key, and the id (the main key backward-filled)
JoinedColumn(dfs_, key, max_steps) ==
    [s \in 0..max_steps |-> KeptValue(dfs_[key], max_steps, s)]

IdColumn(dfs_, main_key, max_steps) ==
    LET main == JoinedColumn(dfs_, main_key, max_steps)
    IN  [s \in 0..max_steps |-> BFill(main, s, max_steps)]

\* lines 165-201.  The result is indexed by new_key: index holds the ids in
\* ascending order (groupby sorts, and drops rows whose id is null), rows the
\* aggregated cells of the other columns.
agg_one_df(new_key, main_key, dfs_) ==
    IF main_key \notin DOMAIN dfs_ \/ dfs_[main_key] = <<>>
    THEN [tag |-> "ok", index |-> <<>>, cols |-> {}, rows |-> <<>>]
    ELSE IF \E key \in DOMAIN dfs_ : dfs_[key] = <<>>
    \* line 177: df['_step'] on a frame without columns
    THEN [tag |-> "KeyError", index |-> <<>>, cols |-> {}, rows |-> <<>>]
    ELSE
      LET max_steps == MaxSteps(dfs_[main_key])
          id == IdColumn(dfs_, main_key, max_steps)
          agg_cols == DOMAIN dfs_ \ {new_key, main_key}
          ids == SortedSeq({id[s].vs[1] : s \in {t \in 0..max_steps : ~IsNull(id[t])}})
          members(i) == SortedSeq({s \in 0..max_steps : id[s] = Scalar(i)})
          column(key, i) ==
              LET m == members(i)
                  col == JoinedColumn(dfs_, key, max_steps)
              IN  [j \in 1..Len(m) |-> col[m[j]]]
      IN  IF agg_cols = {}
          \* line 200: agg of an empty dict has nothing to concatenate
          THEN [tag |-> "ValueError", index |-> <<>>, cols |-> {}, rows |-> <<>>]
          ELSE [tag |-> "ok",
                index |-> [j \in 1..Len(ids) |-> Scalar(ids[j])],
                cols |-> agg_cols,
                rows |-> [j \in 1..Len(ids) |->
                            [key \in agg_cols |-> collect_non_null(column(key, ids[j]))]]]

RECURSIVE SplitHead(_)
\* s.split('/')[0]
SplitHead(s) ==
    IF s = <<>> \/ Head(s) = "/" THEN <<>> ELSE <<Head(s)>> \o SplitHead(Tail(s))

\* line 213
NewKey(step_key) == SplitHead(step_key) \o S_id

\* lines 213-220: the table of one group; empty when the group is skipped
GroupTable(step_key, dfs_) ==
    LET new_key == NewKey(step_key)
        agg == agg_one_df(new_key, step_key, dfs_)
    IN  IF agg.tag # "ok" THEN Raised(agg.tag)
        ELSE IF agg.cols = {} \/ agg.index = <<>> THEN Ok(EmptyDF)
        ELSE Ok([cols |-> agg.cols \cup {new_key, S_step},
                 rows |-> [j \in 1..Len(agg.index) |->
                    [c \in agg.cols \cup {new_key, S_step} |->
                        IF c \in {new_key, S_step} THEN agg.index[j]
                        ELSE agg.rows[j][c]]]])

----
MainSamples == {Sample(s, Scalar(v)) : s \in 0..MaxStep, v \in 0..MaxStep}
CompanionSamples == {Sample(s, Scalar(v)) : s \in 0..MaxStep, v \in Values}

\* what fetch_one_group may leave in dfs for one key: nothing (the fetch
\* failed) or a frame
FetchedOptions(samples) ==
    {[present |-> FALSE, rows |-> <<>>]}
        \cup {[present |-> TRUE, rows |-> r] : r \in SeqsUpTo(samples, MaxLen)}

DfsOf(opts) == [k \in {x \in DOMAIN opts : opts[x].present} |-> opts[k].rows]

InitDensify ==
    /\ pc = "densify"
    /\ ClassifyIdle /\ FetchIdle /\ MergeIdle /\ UploadIdle /\ MainIdle
    /\ ReportIdle
    /\ metric_step = K_train_step
    /\ \E m \in FetchedOptions(MainSamples), c \in FetchedOptions(CompanionSamples) :
          dfs = DfsOf([k \in {K_train_step, K_train_loss} |->
                          IF k = K_train_step THEN m ELSE c])
    /\ df_group = <<>>

\* lines 213-220 for one group
DensifyGroup ==
    /\ pc = "densify"
    /\ df_group' = GroupTable(metric_step, dfs)
    /\ pc' = IF df_group'.tag = "ok" THEN "densified" ELSE "export_failed"
    /\ UNCHANGED <<dfs, metric_step, notDensify>>

NextDensify == DensifyGroup

SpecDensify == InitDensify /\ [][NextDensify]_vars

(***************************************************************************)
(* Merging the groups (export_wandb, lines 223-246)                        *)
(***************************************************************************)
\* the values of the 'step' column
StepsOf(df) == {df.rows[j][S_step].vs[1] : j \in 1..Len(df.rows)}

\* the row of a table at a step (the ids of a group table are distinct:
\* groupby yields one row per id)
RowAt(df, v) == df.rows[CHOOSE j \in 1..Len(df.rows) : df.rows[j][S_step] = Scalar(v)]

\* pd.merge(left, right, on='step', how=..., suffixes=('', suffix)) over the
\* given join keys: columns of right that left also has, other than 'step',
\* take the suffix; a side without the key contributes nulls
MergeOn(left, right, suffix, steps) ==
    LET overlap == (left.cols \cap right.cols) \ {S_step}
        renamed(c) == IF c \in overlap THEN c \o suffix ELSE c
        rcols == {renamed(c) : c \in right.cols \ {S_step}}
        source(c) == CHOOSE r \in right.cols \ {S_step} : renamed(r) = c
        keys == SortedSeq(steps)
    IN  [cols |-> left.cols \cup rcols,
         rows |-> [j \in 1..Len(keys) |->
            [c \in left.cols \cup rcols |->
                IF c = S_step THEN Scalar(keys[j])
                ELSE IF c \in left.cols
                THEN (IF keys[j] \in StepsOf(left) THEN RowAt(left, keys[j])[c]
                      ELSE NullCell)
                ELSE (IF keys[j] \in StepsOf(right) THEN RowAt(right, keys[j])[source(c)]
                      ELSE NullCell)]]]

\* Variant of OuterMerge for how='left'.
LeftMerge(left, right, suffix) == MergeOn(left, right, suffix, StepsOf(left))

\* lines 232-238: how='outer' keeps the union of the keys, sorted
OuterMerge(left, right, suffix) ==
    MergeOn(left, right, suffix, StepsOf(left) \cup StepsOf(right))

RECURSIVE MergeOthers(_, _, _)
\* lines 228-238: merge the other groups that have a table, in the listed order
MergeOthers(df, others, results) ==
    IF others = <<>> THEN df
    ELSE LET step_key == Head(others)
         IN  MergeOthers(
                IF step_key \in DOMAIN results
                THEN OuterMerge(df, results[step_key], <<"_">> \o SplitHead(step_key))
                ELSE df,
                Tail(others), results)

\* lines 223-246 (line 241 drops nothing: the column names of a table are
\* a set here, and the suffixes keep merged names apart)
MergeGroups(results) ==
    IF K_train_step \in DOMAIN results
    THEN MergeOthers(results[K_train_step], <<K_rollout_step, K_eval_step>>, results)
    ELSE IF DOMAIN results # {}
    THEN results[GroupOrder(results)[1]]      \* list(result_dfs.values())[0]
    ELSE EmptyDF

----
\* the metric column the merge inputs carry for each group
MetricOf(step_key) ==
    IF step_key = K_train_step THEN K_train_loss
    ELSE IF step_key = K_rollout_step THEN K_rollout_r
    ELSE K_eval_acc

\* a non-empty group table as lines 213-220 leave it: distinct ascending ids,
\* the id and step columns, and the aggregated metric column
MakeGroupTable(step_key, cells) ==
    LET ids == SortedSeq(DOMAIN cells)
        cols == {NewKey(step_key), S_step, MetricOf(step_key)}
    IN  [cols |-> cols,
         rows |-> [j \in 1..Len(ids) |->
            [c \in cols |-> IF c = MetricOf(step_key) THEN cells[ids[j]]
                            ELSE Scalar(ids[j])]]]

GroupTables(step_key) ==
    {MakeGroupTable(step_key, cells) :
        cells \in UNION {[S -> {NullCell, Scalar(7)}] : S \in SUBSET (0..MaxStep) \ {{}}}}

InitMerge ==
    /\ pc = "merge"
    /\ ClassifyIdle /\ FetchIdle /\ dfs = <<>> /\ DensifyIdle /\ UploadIdle /\ MainIdle
    /\ ReportIdle
    /\ \E G \in SUBSET Range(StepKeys) :
          \E t \in [G -> UNION {GroupTables(k) : k \in G}] :
              /\ \A k \in G : t[k] \in GroupTables(k)
              /\ result_dfs = t
    /\ df_final = <<>>

\* lines 223-246
Merge ==
    /\ pc = "merge"
    /\ df_final' = MergeGroups(result_dfs)
    /\ pc' = "merged"
    /\ UNCHANGED <<result_dfs, notMerge>>

NextMerge == Merge

SpecMerge == InitMerge /\ [][NextMerge]_vars

(***************************************************************************)
(* Uploading one source (uploader.py)                                      *)
(*                                                                         *)
(* A mapping is the sequence of its items [src, target] in dict order.     *)
(***************************************************************************)
S_index == <<"i","n","d","e","x">>
S__step == <<"_">> \o S_step
S_global_step == <<"g","l","o","b","a","l","_">> \o S_step
S_Step == <<"S","t","e","p">>

RECURSIVE FirstIn(_, _)
FirstIn(candidates, cols) ==
    IF candidates = <<>> THEN S_index
    ELSE IF Head(candidates) \in cols THEN Head(candidates)
    ELSE FirstIn(Tail(candidates), cols)

\* _find_step_column, lines 20-42
FindStepColumn(table, preferred) ==
    IF preferred \in table.cols THEN preferred
    ELSE FirstIn(<<S__step, S_global_step, S_Step, S_step>>, table.cols)

Item(src, target) == [src |-> src, target |-> target]

RECURSIVE SetToSeq(_)
SetToSeq(S) ==
    IF S = {} THEN <<>>
    ELSE LET x == CHOOSE y \in S : TRUE IN <<x>> \o SetToSeq(S \ {x})

\* the configured mapping: absent (None) or the items of the dict
NoMapping == [given |-> FALSE, items |-> <<>>]
Mapping(items) == [given |-> TRUE, items |-> items]

\* lines 184-190: the mapping sync_framework_data uploads with
UploadMapping(mapping, aligned_metrics) ==
    IF ~mapping.given
    THEN LET metrics == SetToSeq(Range(aligned_metrics))
         IN  [i \in 1..Len(metrics) |-> Item(metrics[i], metrics[i])]
    ELSE mapping.items

\* bool(pd.notna(cell)) of line 142: "true", "false", or "raise" (pd.notna of
\* a list is an array, and the truth value of an array of more than one
\* element is a ValueError)
NotNa(cell) ==
    IF cell.tag = "list"
    THEN (IF Len(cell.vs) > 1 THEN "raise"
          ELSE IF Len(cell.vs) = 1 THEN "true" ELSE "false")
    ELSE IF IsNull(cell) THEN "false" ELSE "true"

Built(items) == [tag |-> "built", items |-> items]
NotBuilt(tag) == [tag |-> tag, items |-> <<>>]

\* line 143: payload[target_key] = row[src_key]
PutItem(items, target, cell) ==
    [t \in DOMAIN items \cup {target} |-> IF t = target THEN cell ELSE items[t]]

RECURSIVE BuildPayload(_, _, _)
\* lines 138-143, from the items still to visit and the payload so far
BuildPayload(row, mapping, items) ==
    IF mapping = <<>> THEN Built(items)
    ELSE LET src_key == Head(mapping).src
             target_key == Head(mapping).target
         IN  IF src_key \notin DOMAIN row
             THEN BuildPayload(row, Tail(mapping), items)
             ELSE IF NotNa(row[src_key]) = "raise" THEN NotBuilt("ValueError")
             ELSE IF NotNa(row[src_key]) = "true"
             THEN BuildPayload(row, Tail(mapping), PutItem(items, target_key, row[src_key]))
             ELSE BuildPayload(row, Tail(mapping), items)

\* the sort key of sort_values: NaN last
StepLess(a, b) ==
    IF IsNull(a) THEN FALSE
    ELSE IF IsNull(b) THEN TRUE
    ELSE a.vs[1] < b.vs[1]

RECURSIVE InsertSorted(_, _, _)
InsertSorted(row, sorted, col) ==
    IF sorted = <<>> THEN <<row>>
    ELSE IF StepLess(row[col], Head(sorted)[col]) THEN <<row>> \o sorted
    ELSE <<Head(sorted)>> \o InsertSorted(row, Tail(sorted), col)

RECURSIVE SortRows(_, _)
\* line 129: df.sort_values(by=step_col).reset_index(drop=True); rows of equal
\* step keep their order (frames this small are sorted by insertion)
SortRows(rows, col) ==
    IF rows = <<>> THEN <<>>
    ELSE InsertSorted(rows[Len(rows)], SortRows(SubSeq(rows, 1, Len(rows) - 1), col), col)

\* lines 122-129: the rows in upload order and the step column used
UploadRows(table, step_col) ==
    IF step_col = S_index \/ step_col \notin table.cols
    THEN [j \in 1..Len(table.rows) |->
            [c \in table.cols \cup {S_step} |->
                IF c = S_step THEN Scalar(j - 1) ELSE table.rows[j][c]]]
    ELSE SortRows(table.rows, step_col)

UploadStepCol(table, step_col) ==
    IF step_col = S_index \/ step_col \notin table.cols THEN S_step ELSE step_col

LogCall(i, step, items, ok) ==
    [op |-> "log", row |-> i, step |-> step, payload |-> items, ok |-> ok]
InitCall == [op |-> "init", row |-> 0, step |-> 0, payload |-> <<>>, ok |-> TRUE]
FinishCall == [op |-> "finish", row |-> 0, step |-> 0, payload |-> <<>>, ok |-> TRUE]

RECURSIVE UploadLoop(_, _, _, _, _, _)
\* lines 132-157: the loop from row i on, then finish and return; st holds
\* the calls made, the payloads built and uploaded_count so far
UploadLoop(rows, step_col, mapping, fails, i, st) ==
    IF i > Len(rows)
    THEN [st EXCEPT !.calls = Append(@, FinishCall), !.tag = "returned"]
    ELSE LET row == rows[i]
             step_val == row[step_col]
             payload == BuildPayload(row, mapping, <<>>)
         IN  IF IsNull(step_val)
             THEN UploadLoop(rows, step_col, mapping, fails, i + 1,
                     [st EXCEPT !.payloads = Append(@, NotBuilt("skipped"))])
             ELSE IF payload.tag # "built"
             \* the exception leaves _upload_data: no finish, nothing returned
             THEN [st EXCEPT !.payloads = Append(@, payload), !.tag = payload.tag]
             ELSE IF DOMAIN payload.items = {}
             THEN UploadLoop(rows, step_col, mapping, fails, i + 1,
                     [st EXCEPT !.payloads = Append(@, payload)])
             ELSE UploadLoop(rows, step_col, mapping, fails, i + 1,
                     [st EXCEPT
                        !.payloads = Append(@, payload),
                        !.calls = Append(@, LogCall(i, step_val.vs[1], payload.items,
                                                    i \notin fails)),
                        !.count = IF i \in fails THEN @ ELSE @ + 1])

\* _upload_data, lines 84-157
UploadData(table, step_col, mapping, fails) ==
    UploadLoop(UploadRows(table, step_col), UploadStepCol(table, step_col), mapping,
               fails, 1,
               [tag |-> "running", calls |-> <<InitCall>>, payloads |-> <<>>, count |-> 0])

\* sync_framework_data, lines 159-199 (df is None is decided by the caller's
\* table being absent)
SyncFrameworkData(table, mapping, aligned_metrics, fails) ==
    IF IsEmpty(table)
    THEN [tag |-> "skipped", calls |-> <<>>, payloads |-> <<>>, count |-> 0]
    ELSE UploadData(table, FindStepColumn(table, S_step),
                    UploadMapping(mapping, aligned_metrics), fails)

----
C_x == <<"x">>
C_a == <<"a">>
C_b == <<"b">>
C_z == <<"z">>

\* cfg['aligned_metrics']
aligned_metrics == <<C_a, C_b>>

MaxRows == 2

\* rows of an aligned table with a step column, a source column x and a
\* column named like the canonical metric a
UploadRowSet ==
    {[c \in {S_step, C_x, C_a} |->
        IF c = S_step THEN st ELSE IF c = C_x THEN x ELSE a] :
        st \in {NullCell, Scalar(0), Scalar(1)},
        x \in {NullCell, Scalar(7), List(<<7, 8>>)},
        a \in {NullCell, Scalar(8)}}

MappingOptions ==
    {NoMapping,
     Mapping(<<>>),
     Mapping(<<Item(C_x, C_a)>>),
     Mapping(<<Item(C_z, C_a)>>),
     Mapping(<<Item(C_x, C_a), Item(C_a, C_a)>>),
     Mapping(<<Item(C_a, C_a), Item(C_x, C_a)>>),
     Mapping(<<Item(C_x, C_b), Item(C_a, C_a), Item(C_z, C_b)>>)}

InitUpload ==
    /\ pc = "upload"
    /\ ClassifyIdle /\ FetchIdle /\ dfs = <<>> /\ DensifyIdle /\ MergeIdle /\ MainIdle
    /\ ReportIdle
    /\ \E rows \in SeqsUpTo(UploadRowSet, MaxRows) :
          upload_df = [cols |-> {S_step, C_x, C_a}, rows |-> rows]
    /\ fw_mapping \in MappingOptions
    /\ log_fails \in SUBSET (1..Len(upload_df.rows))
    /\ calls = <<>> /\ payloads = <<>> /\ uploaded_count = 0

\* uploader.sync_framework_data(fw_name, df, fw_config), main.py:137
Upload ==
    /\ pc = "upload"
    /\ LET r == SyncFrameworkData(upload_df, fw_mapping, aligned_metrics, log_fails)
       IN  /\ calls' = r.calls
           /\ payloads' = r.payloads
           /\ uploaded_count' = r.count
           /\ pc' = IF r.tag \in {"returned", "skipped"} THEN "uploaded" ELSE "upload_raised"
    /\ UNCHANGED <<upload_df, fw_mapping, log_fails, notUpload>>

NextUpload == Upload

SpecUpload == InitUpload /\ [][NextUpload]_vars

(***************************************************************************)
(* The exporters as a whole and the CSV cache (exporter.py:25-99, 248-257) *)
(***************************************************************************)
\* what to_csv writes for a cell and read_csv reads back: a list becomes its
\* text, None and NaN become the empty field, read back as NaN
CsvCell(cell) == IF cell.tag = "list" THEN Text(cell.vs) ELSE cell

\* df.to_csv(path, index=False): the header and the rows
ToCsv(table) ==
    [cols |-> table.cols,
     rows |-> [j \in 1..Len(table.rows) |->
                 [c \in table.cols |-> CsvCell(table.rows[j][c])]]]

\* pd.read_csv(path): a file without a header line (the frame written had no
\* columns) has no columns to parse: EmptyDataError
ReadCsv(csv) == IF csv.cols = {} THEN Raised("EmptyDataError") ELSE Ok(csv)

NoFile == [exists |-> FALSE, csv |-> EmptyDF]
FileOf(csv) == [exists |-> TRUE, csv |-> csv]

\* what one export call did: tag "ok" (a frame returned), "none" (None
\* returned) or the exception that left it; the file afterwards; whether the
\* backend was called; the source keys requested
Exported(tag, table, file, called, keys) ==
    [tag |-> tag, df |-> table, file |-> file, backend_call |-> called, keys |-> keys]

\* lines 35-39 and 96-99: the cache check both exporters start with
FromCache(file) ==
    LET r == ReadCsv(file.csv)
    IN  Exported(r.tag, r.df, file, FALSE, {})

\* fetch_one_group (lines 146-163) as a function of the backend: the frames of
\* the keys whose fetch returned one
FetchOneGroup(keys, scan) ==
    [k \in {x \in Range(keys) : fetch_single_metric(x, scan).tag = "df"} |->
        fetch_single_metric(k, scan).rows]

RECURSIVE ProcessGroups(_, _, _, _)
\* lines 204-221: result_dfs after the groups still to process, or the
\* exception densification raised
ProcessGroups(order, grouped, scan, results) ==
    IF order = <<>> THEN [tag |-> "ok", results |-> results]
    ELSE LET step_key == Head(order)
             table == GroupTable(step_key, FetchOneGroup(grouped[step_key], scan))
         IN  IF table.tag # "ok" THEN [tag |-> table.tag, results |-> results]
             ELSE ProcessGroups(Tail(order), grouped, scan,
                    IF IsEmpty(table.df) THEN results
                    ELSE [k \in DOMAIN results \cup {step_key} |->
                            IF k = step_key THEN table.df ELSE results[k]])

\* result_dfs of a run (lines 115-221)
ResultDfs(run) ==
    LET grouped == GroupMetrics(FilterKeys(run.keys))
    IN  ProcessGroups(GroupOrder(grouped), grouped, run.scan, <<>>)

\* the value of F at x, x computed once
Once(x, F(_)) == CHOOSE y \in {F(v) : v \in {x}} : TRUE

\* lines 223-249: merge the groups, write the file, return the frame
MergeAndSave(results) ==
    Once(MergeGroups(results),
         LAMBDA table : Exported("ok", table, FileOf(ToCsv(table)), TRUE, {}))

\* export_wandb, lines 82-257
export_wandb(file, run) ==
    IF file.exists THEN FromCache(file)
    ELSE IF run.fails THEN Exported("none", EmptyDF, file, TRUE, {})   \* api.run raises
    ELSE Once(ResultDfs(run),
              LAMBDA r : IF r.tag # "ok" THEN Exported("none", EmptyDF, file, TRUE, {})
                         ELSE MergeAndSave(r.results))

\* lines 48-54: the source keys export_swanlab requests, for a configured
\* mapping and cfg['aligned_metrics']; 'if mapping:' is false for None and {}
SourceMetricsOf(mapping, aligned) ==
    IF mapping.given /\ mapping.items # <<>>
    THEN {mapping.items[i].src : i \in 1..Len(mapping.items)}
    ELSE Range(aligned)

SourceMetrics(mapping) == SourceMetricsOf(mapping, aligned_metrics)

\* lines 65-69: response.data with its index turned into the column 'step'
SwanlabFrame(data, keys) ==
    LET cols == {k \in keys : k \in DOMAIN data.columns}
    IN  [cols |-> cols \cup {S_step},
         rows |-> [j \in 1..Len(data.index) |->
            [c \in cols \cup {S_step} |->
                IF c = S_step THEN Scalar(data.index[j]) ELSE data.columns[c][j]]]]

\* export_swanlab, lines 25-80
export_swanlab(file, mapping, experiment) ==
    IF file.exists THEN FromCache(file)
    ELSE IF experiment.fails       \* response.errmsg
    THEN Exported("none", EmptyDF, file, TRUE, SourceMetrics(mapping))
    ELSE Once(SwanlabFrame(experiment.data, SourceMetrics(mapping)),
              LAMBDA table : Exported("ok", table, FileOf(ToCsv(table)), TRUE,
                                      SourceMetrics(mapping)))

(***************************************************************************)
(* main (main.py:73-198), run after run over the same files                *)
(***************************************************************************)
NoExport == [name |-> "", tag |-> "noexport", df |-> EmptyDF, file |-> NoFile,
             backend_call |-> FALSE, keys |-> {}, file_before |-> NoFile]

\* lines 99-114: one iteration of the export loop
ExportStep ==
    /\ pc = "export"
    /\ fw_i <= Len(frameworks)
    /\ \E fw \in {frameworks[fw_i]} :
       \E r \in {IF fw.platform = "swanlab"
                 THEN export_swanlab(files[fw.name], fw.mapping, backend[fw.name])
                 ELSE export_wandb(files[fw.name], backend[fw.name])} :
           IF ~fw.enabled
           THEN /\ pc' = pc
                /\ UNCHANGED <<files, framework_data, last_export>>
           ELSE /\ files' = [files EXCEPT ![fw.name] = r.file]
                /\ last_export' = [name |-> fw.name, tag |-> r.tag, df |-> r.df,
                                   file |-> r.file, backend_call |-> r.backend_call,
                                   keys |-> r.keys, file_before |-> files[fw.name]]
                /\ framework_data' =
                      IF r.tag = "ok"
                      THEN Append(framework_data, [name |-> fw.name, df |-> r.df])
                      ELSE framework_data
                \* an exception of the cache read is caught nowhere in main
                /\ pc' = IF r.tag \in {"ok", "none"} THEN pc ELSE "crashed"
    /\ fw_i' = fw_i + 1
    /\ UNCHANGED <<frameworks, backend, run_no, summarised, calls, notMain>>

\* lines 117-119
CheckData ==
    /\ pc = "export"
    /\ fw_i > Len(frameworks)
    /\ pc' = IF framework_data = <<>> THEN "exit1" ELSE "upload"
    /\ fw_i' = 1
    /\ UNCHANGED <<frameworks, backend, files, run_no, framework_data, last_export,
                   summarised, calls, notMain>>

FrameworkNamed(name) ==
    frameworks[CHOOSE i \in 1..Len(frameworks) : frameworks[i].name = name]

\* lines 132-141: one iteration of the upload loop; an exception of
\* sync_framework_data is caught and printed
UploadStep ==
    /\ pc = "upload"
    /\ fw_i <= Len(framework_data)
    /\ \E fails \in {{}, {1}} :
          LET entry == framework_data[fw_i]
              r == SyncFrameworkData(entry.df, FrameworkNamed(entry.name).mapping,
                                     aligned_metrics, fails)
          IN  calls' = calls \o r.calls
    /\ fw_i' = fw_i + 1
    /\ UNCHANGED <<pc, frameworks, backend, files, run_no, framework_data, last_export,
                   summarised, notMain>>

\* line 143: the upload loop is over
StartSummary ==
    /\ pc = "upload"
    /\ fw_i > Len(framework_data)
    /\ pc' = "summary"
    /\ fw_i' = 1
    /\ UNCHANGED <<frameworks, backend, files, run_no, framework_data, last_export,
                   summarised, calls, notMain>>

\* lines 161-165: the exception that leaves main while the file of a source is
\* summarised: read_csv fails, or the step column holds no number
\* (int(nan) raises ValueError)
SummaryRaises(csv) ==
    \/ ReadCsv(csv).tag # "ok"
    \/ /\ S_step \in csv.cols
       /\ \A j \in 1..Len(csv.rows) : IsNull(csv.rows[j][S_step])

\* lines 151-193: one iteration of the summary loop
SummaryStep ==
    /\ pc = "summary"
    /\ fw_i <= Len(frameworks)
    /\ LET fw == frameworks[fw_i]
       IN  IF ~fw.enabled
           THEN UNCHANGED <<pc, summarised>>
           ELSE IF files[fw.name].exists /\ SummaryRaises(files[fw.name].csv)
           THEN pc' = "crashed" /\ UNCHANGED summarised
           ELSE pc' = pc /\ summarised' = summarised \cup {fw.name}
    /\ fw_i' = fw_i + 1
    /\ UNCHANGED <<frameworks, backend, files, run_no, framework_data, last_export,
                   calls, notMain>>

\* lines 195-198
Finish ==
    /\ pc = "summary"
    /\ fw_i > Len(frameworks)
    /\ pc' = "done"
    /\ UNCHANGED <<frameworks, backend, files, run_no, fw_i, framework_data, last_export,
                   summarised, calls, notMain>>

MaxRuns == 2

MainEnded == pc \in {"done", "crashed", "exit1"}

\* the program is started again: the files stay, everything else is fresh
NextRun ==
    /\ MainEnded
    /\ run_no < MaxRuns
    /\ run_no' = run_no + 1
    /\ pc' = "export"
    /\ fw_i' = 1
    /\ framework_data' = <<>>
    /\ last_export' = NoExport
    /\ summarised' = {}
    /\ calls' = <<>>
    /\ UNCHANGED <<frameworks, backend, files, notMain>>

----
FrameworkNames == <<"fw1", "fw2">>

K_train_acc == P_train \o <<"a","c","c">>

WandbKeys ==
    <<K_train_step, K_train_loss, K_train_acc, K_eval_step, K_eval_acc, K_system_cpu>>

NoData == [index |-> <<>>, columns |-> <<>>]
Yields(rows) == [raises |-> FALSE, rows |-> rows]
Raises == [raises |-> TRUE, rows |-> <<>>]

\* what scan_history does for each key of the runs considered
ScanOptions(key) ==
    IF key = K_train_step
    THEN {Yields(<<>>), Yields(<<Sample(1, Scalar(1))>>),
          Yields(<<Sample(0, Scalar(0)), Sample(1, Scalar(1))>>)}
    ELSE IF key = K_train_loss
    THEN {Raises, Yields(<<>>), Yields(<<Sample(0, Scalar(7)), Sample(1, Scalar(8))>>)}
    ELSE IF key = K_eval_step
    THEN {Yields(<<>>), Yields(<<Sample(1, Scalar(1))>>)}
    ELSE {Yields(<<Sample(1, Scalar(7))>>)}

WandbRun(fails, scan) ==
    [kind |-> "wandb", fails |-> fails, keys |-> WandbKeys, data |-> NoData, scan |-> scan]

\* a WandB run: api.run works or raises; per key, scan_history raises or
\* yields a series
WandbRuns ==
    {WandbRun(TRUE, [k \in Range(WandbKeys) |-> Raises])}
    \cup
    {WandbRun(FALSE, [k \in Range(WandbKeys) |->
                        IF k = K_train_step THEN ts
                        ELSE IF k = K_train_loss THEN tl
                        ELSE IF k = K_eval_step THEN es
                        ELSE Yields(<<Sample(1, Scalar(7))>>)]) :
        ts \in ScanOptions(K_train_step),
        tl \in ScanOptions(K_train_loss),
        es \in ScanOptions(K_eval_step)}

\* a SwanLab experiment: get_metrics reports an error or returns the frame of
\* the requested keys it holds
SwanlabExperiments ==
    {[kind |-> "swanlab", fails |-> f, keys |-> <<>>, scan |-> <<>>,
      data |-> [index |-> <<0, 1>>,
                columns |-> [c \in {C_x, C_a} |->
                    IF c = C_x THEN <<Scalar(7), NullCell>> ELSE <<Scalar(8), Scalar(8)>>]]] :
        f \in BOOLEAN}

ConfigMappings == {NoMapping, Mapping(<<>>), Mapping(<<Item(C_x, C_a), Item(K_train_loss, C_b)>>)}

InitMain ==
    /\ pc = "export"
    /\ ClassifyIdle /\ FetchIdle /\ dfs = <<>> /\ DensifyIdle /\ MergeIdle
    /\ ReportIdle
    /\ upload_df = <<>> /\ fw_mapping = <<>> /\ log_fails = {}
    /\ payloads = <<>> /\ uploaded_count = 0
    /\ backend \in [Range(FrameworkNames) -> WandbRuns \cup SwanlabExperiments]
    /\ \E en \in [1..Len(FrameworkNames) -> BOOLEAN],
          mp \in [1..Len(FrameworkNames) -> ConfigMappings] :
          /\ \E i \in DOMAIN en : en[i]          \* load_config, main.py:55-61
          /\ frameworks = [i \in 1..Len(FrameworkNames) |->
                [name |-> FrameworkNames[i], enabled |-> en[i],
                 platform |-> backend[FrameworkNames[i]].kind, mapping |-> mp[i]]]
    /\ files = [n \in Range(FrameworkNames) |-> NoFile]     \* the first run finds no file
    /\ run_no = 1
    /\ fw_i = 1
    /\ framework_data = <<>>
    /\ last_export = NoExport
    /\ summarised = {}
    /\ calls = <<>>

NextMain ==
    \/ ExportStep
    \/ CheckData
    \/ UploadStep
    \/ StartSummary
    \/ SummaryStep
    \/ Finish
    \/ NextRun

SpecMain == InitMain /\ [][NextMain]_vars

(***************************************************************************)
(* The alignment report (uploader.py:44-82, main.py:167-182) and the       *)
(* mapping each component derives from one configuration                   *)
(***************************************************************************)
NoReport == [tag |-> "none", present |-> {}, missing |-> {}]
Report(present, missing) == [tag |-> "report", present |-> present, missing |-> missing]

\* the targets of the items of a mapping whose source key is among cols
TargetsFrom(items, cols) ==
    {items[i].target : i \in {j \in 1..Len(items) : items[j].src \in cols}}

\* _check_metrics_alignment, lines 44-82: available_aligned and
\* missing_metrics, or nothing when aligned_metrics is empty (line 60)
check_metrics_alignment(cols, aligned, metric_mapping) ==
    IF aligned = {} THEN NoReport
    ELSE Report(TargetsFrom(metric_mapping, cols),
                aligned \ TargetsFrom(metric_mapping, cols))

\* main.py:167-182: available_metrics and missing_metrics of the summary
SummaryAlignment(cols, aligned, mapping) ==
    LET available_metrics ==
            IF mapping.given /\ mapping.items # <<>>       \* 'if mapping:'
            THEN TargetsFrom(mapping.items, cols)
            ELSE {metric \in Range(aligned) : metric \in cols}
    IN  Report(available_metrics, Range(aligned) \ available_metrics)

Pending == [tag |-> "pending"]

\* exporter.py:47-54: export_swanlab settles the keys it requests
RequestKeys ==
    /\ pc = "report"
    /\ report.exporter = Pending
    /\ report' = [report EXCEPT !.exporter =
            [tag |-> "keys",
             keys |-> SourceMetricsOf(report_in.mapping, report_in.aligned)]]
    /\ UNCHANGED <<pc, report_in, notReport>>

\* uploader.py:180-190 and 108: sync_framework_data settles the mapping it
\* uploads with and _upload_data reports the alignment under it
CheckAlignment ==
    /\ pc = "report"
    /\ report.uploader = Pending
    /\ \E metric_mapping \in {UploadMapping(report_in.mapping, report_in.aligned)} :
          report' = [report EXCEPT !.uploader =
              [tag |-> "checked",
               mapping |-> metric_mapping,
               alignment |-> check_metrics_alignment(report_in.cols,
                                Range(report_in.aligned), metric_mapping)]]
    /\ UNCHANGED <<pc, report_in, notReport>>

\* main.py:167-182: the summary of the source
Summarise ==
    /\ pc = "report"
    /\ report.summary = Pending
    /\ report' = [report EXCEPT !.summary =
            [tag |-> "summarised",
             alignment |-> SummaryAlignment(report_in.cols, report_in.aligned,
                                            report_in.mapping)]]
    /\ UNCHANGED <<pc, report_in, notReport>>

----
C_y == <<"y">>
C_c == <<"c">>

\* cfg['aligned_metrics'], fw_config['mapping'] and df.columns considered
ReportAligned == {<<>>, <<C_a>>, <<C_a, C_b>>, <<C_a, C_b, C_c>>}
ReportMappings ==
    {NoMapping,
     Mapping(<<>>),
     Mapping(<<Item(C_x, C_a), Item(C_y, C_b)>>),
     Mapping(<<Item(C_x, C_a), Item(C_z, C_a)>>),
     Mapping(<<Item(C_a, C_a), Item(C_x, C_z)>>)}
ReportColumns == SUBSET {S_step, C_x, C_z, C_a, C_b}

InitReport ==
    /\ pc = "report"
    /\ ClassifyIdle /\ FetchIdle /\ dfs = <<>> /\ DensifyIdle /\ MergeIdle
    /\ UploadIdle /\ MainIdle
    /\ \E aligned \in ReportAligned, mapping \in ReportMappings, cols \in ReportColumns :
          report_in = [aligned |-> aligned, mapping |-> mapping, cols |-> cols]
    /\ report = [exporter |-> Pending, uploader |-> Pending, summary |-> Pending]

NextReport ==
    \/ RequestKeys
    \/ CheckAlignment
    \/ Summarise

SpecReport == InitReport /\ [][NextReport]_vars

(***************************************************************************)
(* Properties                                                              *)
(***************************************************************************)
MainRows == dfs[metric_step]
MainNonEmpty == metric_step \in DOMAIN dfs /\ dfs[metric_step] # <<>>

\* the values the main key holds at the last sample of each native step
LastMainValues ==
    {MainRows[i].val.vs[1] : i \in
        {j \in 1..Len(MainRows) :
            \A l \in (j + 1)..Len(MainRows) : MainRows[l].step # MainRows[j].step}}

SamplesUnder(key, id) ==
    LET max_steps == MaxSteps(MainRows)
        ids == IdColumn(dfs, metric_step, max_steps)
        at == {s \in 0..max_steps :
                  /\ ids[s] = id
                  /\ ~IsNull(JoinedColumn(dfs, key, max_steps)[s])}
        steps == SortedSeq(at)
    IN  [j \in 1..Len(steps) |-> JoinedColumn(dfs, key, max_steps)[steps[j]]]

\* C3: in a densified group, the cell of a logical step id and a metric column
\* other than the main key is the list of the k non-null samples grouped under
\* the id in ascending native step when k > 1, the scalar itself when k = 1,
\* and null when k = 0.
C3_CollisionLaw ==
    (pc = "densified" /\ MainNonEmpty) =>
        \A j \in 1..Len(df_group.df.rows) :
            \A key \in df_group.df.cols \ {S_step, NewKey(metric_step)} :
                LET samples == SamplesUnder(key, df_group.df.rows[j][S_step])
                    cell == df_group.df.rows[j][key]
                    k == Len(samples)
                IN  /\ k > 1 => /\ cell.tag = "list"
                                /\ cell.vs = [i \in 1..k |-> samples[i].vs[1]]
                    /\ k = 1 => cell = samples[1] /\ cell.tag = "scalar"
                    /\ k = 0 => cell = NullCell

\* C3 witness: a collision cell holding two samples in native-step order
\* beside a single-sample id
C3_Witness ==
    /\ pc = "densified"
    /\ MainNonEmpty
    /\ \E j \in 1..Len(df_group.df.rows) :
          df_group.df.rows[j][K_train_loss] = List(<<8, 7>>)


\* the groups whose list holds the key
ListedIn(key) == {k \in DOMAIN grouped_metrics : key \in Range(grouped_metrics[k])}

\* some exact-name or prefix rule of the rule table matches the key
MatchesSomeRule(key) ==
    \E i \in 1..Len(StepKeys) :
        \/ key = StepKeys[i]
        \/ \E p \in Range(keys_mapping(StepKeys[i])) : StartsWith(key, p)

\* C4: every key the backend reports is listed in at most one step-axis group
\* and at most once there; keys starting with 'system' or equal to
\* '_timestamp', and keys matching no rule, are listed in no group.
C4_AtMostOneGroup ==
    pc = "grouped" =>
        \A key \in Range(history_keys) :
            /\ Cardinality(ListedIn(key)) <= 1
            /\ \A k \in ListedIn(key) : Count(grouped_metrics[k], key) = 1
            /\ (StartsWith(key, S_system) \/ key = S_timestamp) => ListedIn(key) = {}
            /\ ~MatchesSomeRule(key) => ListedIn(key) = {}

\* C4 witness: a run reporting step keys, prefixed keys, reserved keys and
\* unmatched keys has been grouped
C4_Witness ==
    /\ pc = "grouped"
    /\ {K_system_train, S_timestamp, K_lr, K_trainer_x} \subseteq Range(history_keys)
    /\ ListedIn(K_train_step) = {K_train_step}
    /\ ListedIn(K_perf_t) = {K_rollout_step}
    /\ ListedIn(K_eval_acc) = {K_eval_step}

\* the keys of the group whose backend call raises
FailingKeys == {k \in Range(group_metrics) : scan_history[k].raises}

\* C5: whichever fetches raise and in whatever order the futures complete,
\* fetch_one_group returns exactly the keys whose fetch succeeded, each with
\* its own series; a failure never aborts the group nor touches another key.
C5_FetchIsolation ==
    /\ pc # "fetch_raised"
    /\ \A k \in DOMAIN dfs : k \notin FailingKeys /\ dfs[k] = scan_history[k].rows
    /\ pc = "fetched" => DOMAIN dfs = Range(group_metrics) \ FailingKeys

\* C5 witness: a group of three keys returned with one fetch failed
C5_Witness ==
    /\ pc = "fetched"
    /\ Len(group_metrics) = 3
    /\ Cardinality(FailingKeys) = 1
    /\ Cardinality(DOMAIN dfs) = 2


\* the merged table holds the rows of group k: at each step of the group its
\* metric cells, at every other step nulls
HoldsGroup(k) ==
    /\ result_dfs[k].cols \subseteq df_final.cols
    /\ StepsOf(result_dfs[k]) \subseteq StepsOf(df_final)
    /\ \A v \in StepsOf(df_final) :
        \A c \in result_dfs[k].cols \ {S_step} :
            RowAt(df_final, v)[c] =
                IF v \in StepsOf(result_dfs[k]) THEN RowAt(result_dfs[k], v)[c]
                ELSE NullCell

\* the merged table has one row per step of the union of the given groups
UnionOfSteps(G) ==
    /\ StepsOf(df_final) = UNION {StepsOf(result_dfs[k]) : k \in G}
    /\ Len(df_final.rows) = Cardinality(StepsOf(df_final))

\* C2 as stated: with or without the primary group, the merged table's steps
\* are the union of the steps of all non-empty groups, its columns include
\* every group's columns, a step missing from a group has nulls in that
\* group's columns, and no row of any group is dropped.
C2_MergeKeepsEveryGroup ==
    pc = "merged" =>
        /\ UnionOfSteps(DOMAIN result_dfs)
        /\ \A k \in DOMAIN result_dfs : HoldsGroup(k)

\* C2 amended: when the primary group (train/step) is among the non-empty
\* groups, the merged table is as stated; when it is not, the merged table is
\* the table of the first non-empty group alone (rollout/step before
\* eval/step), and the other group's rows and columns are not in it.
C2_MergeKeepsEveryGroupUnderPrimary ==
    pc = "merged" =>
        IF K_train_step \in DOMAIN result_dfs
        THEN /\ UnionOfSteps(DOMAIN result_dfs)
             /\ \A k \in DOMAIN result_dfs : HoldsGroup(k)
        ELSE IF DOMAIN result_dfs = {} THEN df_final = EmptyDF
        ELSE LET first == IF K_rollout_step \in DOMAIN result_dfs
                          THEN K_rollout_step ELSE K_eval_step
             IN  df_final = result_dfs[first]

\* C2 witness: three groups merged under the primary group, with a step only
\* the primary group reports and a step only the eval group reports
C2_Witness ==
    /\ pc = "merged"
    /\ DOMAIN result_dfs = Range(StepKeys)
    /\ StepsOf(result_dfs[K_train_step]) = {0}
    /\ StepsOf(result_dfs[K_eval_step]) = {1}
    /\ StepsOf(result_dfs[K_rollout_step]) = {0, 1}

\* the rows of the uploaded table in upload order, and the mapping in use
UploadedRows == UploadRows(upload_df, FindStepColumn(upload_df, S_step))
UploadedStepCol == UploadStepCol(upload_df, FindStepColumn(upload_df, S_step))
MappingInUse == UploadMapping(fw_mapping, aligned_metrics)

\* the items of a mapping that apply to a row for canonical name c: the source
\* key is a column of the row and its cell is not null
Hits(row, mapping, c) ==
    {i \in 1..Len(mapping) :
        /\ mapping[i].target = c
        /\ mapping[i].src \in DOMAIN row
        /\ ~IsNull(row[mapping[i].src])}

\* the payload the contract of the projection describes
Project(row, mapping) ==
    [c \in {mapping[i].target : i \in {j \in 1..Len(mapping) :
                                          Hits(row, mapping, mapping[j].target) # {}}} |->
        row[mapping[SetMax(Hits(row, mapping, c))].src]]

UploadEnded == pc \in {"uploaded", "upload_raised"}

\* C7 as stated: for every row reached at publish time (cells null, scalar or
\* list) the payload built holds canonical name c iff some source key mapped
\* to c is a column of the row with a non-null cell, with the cell of the last
\* such source key in mapping order.
C7_PayloadIsProjection ==
    UploadEnded =>
        \A i \in 1..Len(payloads) :
            payloads[i].tag # "skipped" =>
                /\ payloads[i].tag = "built"
                /\ payloads[i].items = Project(UploadedRows[i], MappingInUse)

LogsOf(i) == {j \in 1..Len(calls) : calls[j].op = "log" /\ calls[j].row = i}
OkLogs == {j \in 1..Len(calls) : calls[j].op = "log" /\ calls[j].ok}

\* C8 as stated: whichever log calls fail, every other row with a non-null
\* step and a non-empty payload is logged exactly once, rows with a null step
\* are never logged, and the returned count is the number of log calls that
\* succeeded.
C8_FailuresAreIsolated ==
    (UploadEnded /\ ~IsEmpty(upload_df)) =>
        /\ \A i \in 1..Len(UploadedRows) :
              IF IsNull(UploadedRows[i][UploadedStepCol])
              THEN LogsOf(i) = {}
              ELSE (DOMAIN Project(UploadedRows[i], MappingInUse) # {} /\ i \notin log_fails)
                      => /\ Cardinality(LogsOf(i)) = 1
                         /\ LogsOf(i) \subseteq OkLogs
        /\ pc = "uploaded"
        /\ uploaded_count = Cardinality(OkLogs)


\* the source last exported, when its export went to the WandB backend: the
\* file was not there and api.run worked
ExportedFromWandb ==
    /\ last_export.tag # "noexport"
    /\ ~last_export.file_before.exists
    /\ backend[last_export.name].kind = "wandb"
    /\ ~backend[last_export.name].fails

\* key is a non-main key of a group of the run whose main key has samples, and
\* the backend returns an empty result for key
EmptyResultUnderMain(run, key) ==
    /\ run.scan[key] = Yields(<<>>)
    /\ \E g \in DOMAIN GroupMetrics(FilterKeys(run.keys)) :
          /\ key # g
          /\ key \in Range(GroupMetrics(FilterKeys(run.keys))[g])
          /\ g \in Range(GroupMetrics(FilterKeys(run.keys))[g])
          /\ ~run.scan[g].raises
          /\ run.scan[g].rows # <<>>

\* the run without the key: the key is never fetched
WithoutKey(run, key) ==
    [run EXCEPT !.keys = SelectSeq(run.keys, LAMBDA k : k # key)]

\* the cells of every column of table ref are the cells of table
SameCellsAs(table, ref) ==
    /\ Len(table.rows) = Len(ref.rows)
    /\ ref.cols \subseteq table.cols
    /\ \A j \in 1..Len(ref.rows) : \A c \in ref.cols : table.rows[j][c] = ref.rows[j][c]

\* C6 as stated: when the backend returns an empty result for a non-main key
\* of a group whose main key has samples, the export still returns the aligned
\* table; the key contributes no values and the cells of every other key are
\* those of the export that never fetched the key.
C6_EmptyResultIsTolerated ==
    ExportedFromWandb =>
        \A key \in Range(backend[last_export.name].keys) :
            EmptyResultUnderMain(backend[last_export.name], key) =>
                /\ last_export.tag = "ok"
                /\ key \in last_export.df.cols =>
                      \A j \in 1..Len(last_export.df.rows) :
                          IsNull(last_export.df.rows[j][key])
                /\ \A ref \in {export_wandb(NoFile, WithoutKey(backend[last_export.name], key))} :
                      ref.tag = "ok" => SameCellsAs(last_export.df, ref.df)

\* every step-axis group of the WandB source densifies to an empty table
AllGroupsEmpty(name) ==
    /\ backend[name].kind = "wandb"
    /\ ~backend[name].fails
    /\ ResultDfs(backend[name]) = [tag |-> "ok", results |-> <<>>]

EnabledNames == {frameworks[i].name : i \in {j \in 1..Len(frameworks) : frameworks[j].enabled}}

\* C9 as stated: when every group of a WandB source densifies to an empty
\* table, the export returns no table for the source, the source is not handed
\* to the upload phase, and the run goes on to the end of main: it does not
\* crash, and when it is done every enabled source has been summarised.
C9_AllGroupsEmptyEndsTheSourceOnly ==
    \A n \in EnabledNames :
        (run_no = 1 /\ AllGroupsEmpty(n)) =>
            /\ last_export.name = n => last_export.tag = "none"
            /\ \A i \in 1..Len(framework_data) : framework_data[i].name # n
            /\ pc # "crashed"
            /\ pc = "done" => summarised = EnabledNames

\* C10 as stated: an export that finds the output file of its source performs
\* no backend call, returns the content of the file and leaves the file as it
\* was.
C10_ExistingFileIsTheExport ==
    (last_export.tag # "noexport" /\ last_export.file_before.exists) =>
        /\ ~last_export.backend_call
        /\ last_export.tag = "ok"
        /\ last_export.df = last_export.file_before.csv
        /\ last_export.file = last_export.file_before


\* the mapping of the configuration: the one configured, or the identity over
\* the declared set when none is configured
ConfiguredMapping ==
    IF report_in.mapping.given THEN report_in.mapping.items
    ELSE [i \in 1..Len(report_in.aligned) |->
            Item(report_in.aligned[i], report_in.aligned[i])]

\* present and missing as the contract of the report defines them
PresentOf(items, cols) ==
    {t \in {items[i].target : i \in 1..Len(items)} :
        \E i \in 1..Len(items) : items[i].target = t /\ items[i].src \in cols}

IsTheReport(r, declared, items, cols) ==
    /\ r.present = PresentOf(items, cols)
    /\ r.missing = declared \ PresentOf(items, cols)
    /\ (r.present \cap declared) \cap r.missing = {}
    /\ (r.present \cap declared) \cup r.missing = declared

\* C11 as stated: for every declared set, mapping and set of columns, the
\* report of the uploader and the report of the summary have present = the
\* mapping targets whose source key is a column and missing = declared minus
\* present, so present-within-declared and missing partition the declared set.
C11_ReportIsPresentAndMissing ==
    /\ report.uploader # Pending =>
          (report.uploader.alignment.tag = "report" =>
              IsTheReport(report.uploader.alignment, Range(report_in.aligned),
                          ConfiguredMapping, report_in.cols))
    /\ report.summary # Pending =>
          IsTheReport(report.summary.alignment, Range(report_in.aligned),
                      ConfiguredMapping, report_in.cols)


\* the last sample of a series at native step t
LastAt(rows, t) == rows[SetMax({i \in 1..Len(rows) : rows[i].step = t})].val

\* the native steps from s on at which the main key has a sample
MainStepsFrom(s) == {MainRows[i].step : i \in 1..Len(MainRows)} \cap s..MaxSteps(MainRows)

\* the id of index step s: the main key's value at the smallest native step
\* t >= s at which the main key has a sample
IdOf(s) == LastAt(MainRows, SetMin(MainStepsFrom(s)))

\* the samples of a companion key kept after clipping and keep-last
\* de-duplication whose native step has the given id, in ascending step
KeptUnder(key, id) ==
    LET steps == SortedSeq({t \in {dfs[key][i].step : i \in 1..Len(dfs[key])} :
                               /\ t \in 0..MaxSteps(MainRows)
                               /\ IdOf(t) = id})
    IN  [j \in 1..Len(steps) |-> LastAt(dfs[key], steps[j]).vs[1]]

\* the values a cell holds
CellValues(cell) == IF IsNull(cell) THEN <<>> ELSE cell.vs

LogsBetween(i, j) == \A k \in (i + 1)..(j - 1) : calls[k].op = "log"

\* C13 as stated: over the upload phase the calls to the destination tracker
\* are init, log calls, finish, framework by framework: every init is followed
\* by its finish with only log calls between, before the next init and before
\* the program ends, also when the processing of a row raises; and every log
\* and finish call lies in a session opened by init.
C13_EverySessionIsClosed ==
    /\ \A i \in 1..Len(calls) :
          calls[i].op = "init" =>
              \E j \in (i + 1)..Len(calls) : calls[j].op = "finish" /\ LogsBetween(i, j)
    /\ \A i \in 1..Len(calls) :
          calls[i].op \in {"log", "finish"} =>
              \E j \in 1..(i - 1) : calls[j].op = "init" /\ LogsBetween(j, i)


\* C14 as stated: for every configuration (mapping absent, empty or
\* non-empty) the source keys the exporter requests are the keys of the
\* mapping the uploader projects with, and the present and missing sets of the
\* summary are those of the uploader's alignment check on the same columns.
C14_OneEffectiveMapping ==
    /\ (report.exporter # Pending /\ report.uploader # Pending) =>
          report.exporter.keys =
              {report.uploader.mapping[i].src : i \in 1..Len(report.uploader.mapping)}
    /\ (report.summary # Pending /\ report.uploader # Pending
            /\ report.uploader.alignment.tag = "report") =>
          /\ report.summary.alignment.present = report.uploader.alignment.present
          /\ report.summary.alignment.missing = report.uploader.alignment.missing

====
